---- MODULE Spec2Model ----
(***************************************************************************)
(* A model of the job-search agent: src/src/job_searcher/main.py (crawler, *)
(* content fetcher, scorer, resume-data generator, title filter and the    *)
(* orchestrator run), tools/custom_tool.py (JobSearchTool) and             *)
(* tools/resume_tool.py (ResumeBuilderTool).                               *)
(*                                                                         *)
(* Python strings whose characters matter (titles, LaTeX text) are         *)
(* sequences of one-character strings.  The module holds one specification *)
(* per part of the program; the variables of the other parts stay idle.    *)
(***************************************************************************)
EXTENDS Integers, Sequences, FiniteSets, TLC

VARIABLES
    \* is_tech_job(title)
    title,          \* the argument
    verdict,        \* <<>> before the call, <<is_valid, reason>> after it
    \* escape_latex(text)
    text,           \* the argument
    once,           \* escape_latex(text)
    twice,          \* escape_latex(escape_latex(text))
    epc,            \* "input" before the calls, "done" after them
    \* analyze_job / generate_resume_data
    lfn,            \* the function called
    lpc,            \* "loop": at the head of the for loop; "got": requests.post
                    \* has ended and its outcome is being handled; "done"
    attempt,        \* the number of iterations of the for loop begun so far
    resp,           \* the outcome of the last requests.post
    trace,          \* what the call has done: requests, statuses, sleeps
    lresult,        \* what the call returned
    \* crawl_jobs / JobSearchTool._run / get_job_text
    bop,            \* the operation called
    bpc,            \* the statement it is at
    playwright,     \* the `with sync_playwright()` block: "none", "entered", "exited"
    browser,        \* "none"; "open" once launched; "closed" once browser.close() ran
    listening,      \* page.on("response", handle_response) has been executed
    found_jobs,     \* the dict found_jobs / found_jobs_map, in insertion order
    responses,      \* the number of responses delivered to the listener so far
    links,          \* the result of page.query_selector_all("a")
    link_i,         \* the number of links the scan has gone through
    scrolls,        \* the number of page.mouse.wheel calls made
    job,            \* get_job_text's argument
    seen,           \* get_job_text: what each selector tried so far gave
    content,        \* get_job_text's local variable content
    bret,           \* "pending", "returned" or "raised" (to the caller)
    jobs_list,      \* the list crawl_jobs / _run returned
    job_text,       \* the text get_job_text returned
    api_urls,       \* history: the URLs the listener has found in responses
    dom_urls,       \* history: the URLs the link scan has found in links
    \* run
    rpc,            \* the statement run is at
    rfail,          \* "" or, once run has ended with an exception, where it arose
    jobs,           \* the list crawl_jobs returned
    ji,             \* the number of jobs the scoring loop is through with
    cur_text,       \* the local variable text (of the job in hand)
    result,         \* the local variable result (of the job in hand)
    valid_jobs,     \* the list valid_jobs
    limit,          \* the local variable limit
    ridx,           \* the number of jobs the resume loop is through with
    written,        \* the files written to output/, in order
    answer,         \* what the operator typed when asked how many resumes
    calls,          \* history: the calls made for the job in hand
    ai_data,        \* the local variable ai_data (of the job in hand)
    built,          \* what the builder did for the job in hand
    \* the parsing of the LLM's answer
    reply,          \* the message content of the response
    parsed,         \* what the parsing gave
    ppc             \* "input" before the parsing, "done" after it

titleVars  == <<title, verdict>>
escapeVars == <<text, once, twice, epc>>
llmVars    == <<lfn, lpc, attempt, resp, trace, lresult>>
browserVars == <<bop, bpc, playwright, browser, listening, found_jobs, responses,
                 links, link_i, scrolls, job, seen, content, bret, jobs_list, job_text,
                 api_urls, dom_urls>>
runVars == <<rpc, rfail, jobs, ji, cur_text, result, valid_jobs, limit, ridx, written,
             answer, calls, ai_data, built>>
parseVars == <<reply, parsed, ppc>>
vars == <<titleVars, escapeVars, llmVars, browserVars, runVars, parseVars>>

----------------------------------------------------------------------------
(* Strings *)

\* The strings of length at most n over the alphabet A.
StringsUpTo(A, n) == UNION {[1..k -> A] : k \in 0..n}

RECURSIVE Concat(_)
\* The concatenation of a sequence of strings.
Concat(ss) == IF ss = <<>> THEN <<>> ELSE Head(ss) \o Concat(Tail(ss))

upper_to_lower ==
    [c \in {"A","B","C","D","E","F","G","H","I","J","K","L","M",
            "N","O","P","Q","R","S","T","U","V","W","X","Y","Z"} |->
       CASE c = "A" -> "a" [] c = "B" -> "b" [] c = "C" -> "c" [] c = "D" -> "d"
         [] c = "E" -> "e" [] c = "F" -> "f" [] c = "G" -> "g" [] c = "H" -> "h"
         [] c = "I" -> "i" [] c = "J" -> "j" [] c = "K" -> "k" [] c = "L" -> "l"
         [] c = "M" -> "m" [] c = "N" -> "n" [] c = "O" -> "o" [] c = "P" -> "p"
         [] c = "Q" -> "q" [] c = "R" -> "r" [] c = "S" -> "s" [] c = "T" -> "t"
         [] c = "U" -> "u" [] c = "V" -> "v" [] c = "W" -> "w" [] c = "X" -> "x"
         [] c = "Y" -> "y" [] c = "Z" -> "z"]

\* str.lower(), on ASCII text.
str_lower(s) ==
    [i \in 1..Len(s) |-> IF s[i] \in DOMAIN upper_to_lower THEN upper_to_lower[s[i]] ELSE s[i]]

\* Python's `k in s` for strings: k occurs in s as a substring.
str_in(k, s) ==
    \E i \in 1..(Len(s) - Len(k) + 1) : SubSeq(s, i, i + Len(k) - 1) = k

----------------------------------------------------------------------------
(* main.py: is_tech_job *)

bad_map ==
    << <<<<"d","i","r","e","c","t","o","r">>, "Too Senior (Director Level)">>,
       <<<<"v","p"," ">>, "Too Senior (VP Level)">>,
       <<<<"p","r","i","n","c","i","p","a","l">>, "Too Senior (Principal Level)">>,
       <<<<"m","a","n","a","g","e","r">>, "Management Role">>,
       <<<<"h","e","a","d"," ","o","f">>, "Management Role">>,
       <<<<"s","a","l","e","s">>, "Non-Tech (Sales)">>,
       <<<<"m","a","r","k","e","t","i","n","g">>, "Non-Tech (Marketing)">>,
       <<<<"a","c","c","o","u","n","t">>, "Non-Tech (Accounts/Sales)">>,
       <<<<"f","i","n","a","n","c","e">>, "Non-Tech (Finance)">>,
       <<<<"l","e","g","a","l">>, "Non-Tech (Legal)">>,
       <<<<"h","r"," ">>, "Non-Tech (HR)">>,
       <<<<"r","e","c","r","u","i","t","e","r">>, "Non-Tech (HR)">>,
       <<<<"r","e","p","r","e","s","e","n","t","a","t","i","v","e">>, "Non-Tech (Support/Sales)">>,
       <<<<"t","a","x">>, "Non-Tech (Finance)">> >>

tech_keywords ==
    << <<"e","n","g","i","n","e","e","r">>,
       <<"d","e","v","e","l","o","p","e","r">>,
       <<"a","r","c","h","i","t","e","c","t">>,
       <<"l","e","a","d">>,
       <<"d","a","t","a">>,
       <<"q","a">>,
       <<"s","d","e","t">>,
       <<"d","e","v","o","p","s">>,
       <<"s","r","e">>,
       <<"f","u","l","l"," ","s","t","a","c","k">>,
       <<"b","a","c","k","e","n","d">>,
       <<"f","r","o","n","t","e","n","d">>,
       <<"s","o","f","t","w","a","r","e">>,
       <<"t","e","c","h","n","o","l","o","g","i","s","t">>,
       <<"a","n","a","l","y","s","t">>,
       <<"c","o","n","s","u","l","t","a","n","t">>,
       <<"s","c","i","e","n","t","i","s","t">>,
       <<"a","d","m","i","n","i","s","t","r","a","t","o","r">> >>

\* A slip of line 333: the title is compared as given, not lower-cased.
normalize_title_as_given(t) == t

\* Line 333: title = title.lower()
normalize_title(t) == str_lower(t)

RECURSIVE first_bad(_, _)
\* Lines 352-354: the loop over bad_map in insertion order; the index of the
\* first keyword found in the title, 0 when the loop ends without a return.
first_bad(t, i) ==
    IF i > Len(bad_map) THEN 0
    ELSE IF str_in(bad_map[i][1], t) THEN i
    ELSE first_bad(t, i + 1)

\* is_tech_job(title): the pair (is_valid, reason) it returns.
is_tech_job(t) ==
    LET lowered == normalize_title(t)
        hit == first_bad(lowered, 1)
    IN  IF hit # 0 THEN <<FALSE, bad_map[hit][2]>>
        ELSE IF ~ \E k \in 1..Len(tech_keywords) : str_in(tech_keywords[k], lowered)
             THEN <<FALSE, "Title does not contain Tech keywords">>
        ELSE <<TRUE, "Valid Tech Role">>

\* The titles the filter is tried on: up to MaxTitleParts parts, each a word
\* of a job title in some casing, with and without a following space.
MaxTitleParts == 3

TitleParts ==
    { <<"D","i","r","e","c","t","o","r"," ">>,
      <<"o","f"," ">>,
      <<"E","n","g","i","n","e","e","r","i","n","g">>,
      <<"B","a","c","k","e","n","d"," ">>,
      <<"S","o","f","t","w","a","r","e"," ">>,
      <<"E","n","g","i","n","e","e","r">>,
      <<"V","P">>,
      <<"H","R">>,
      <<" ">>,
      <<"S","y","n","t","a","x">>,
      <<"N","u","r","s","e">> }

Titles == { Concat(ps) : ps \in StringsUpTo(TitleParts, MaxTitleParts) }

DirectorOfEngineering ==
    <<"D","i","r","e","c","t","o","r"," ","o","f"," ","E","n","g","i","n","e","e","r","i","n","g">>

BackendSoftwareEngineer ==
    <<"B","a","c","k","e","n","d"," ","S","o","f","t","w","a","r","e"," ","E","n","g","i","n","e","e","r">>

TitleIdle == title = <<>> /\ verdict = <<>>

TitleInit == title \in Titles /\ verdict = <<>>

\* The call is_tech_job(title).
IsTechJobCall ==
    /\ verdict = <<>>
    /\ verdict' = is_tech_job(title)
    /\ UNCHANGED <<title, escapeVars, llmVars, browserVars, runVars, parseVars>>

----------------------------------------------------------------------------
(* resume_tool.py: escape_latex *)

\* A table that also escapes the backslash, ahead of the other characters.
replacements_with_backslash ==
    << <<"\\", <<"\\","t","e","x","t","b","a","c","k","s","l","a","s","h","{","}">> >>,
       <<"&", <<"\\","&">> >>,
       <<"%", <<"\\","%">> >>,
       <<"$", <<"\\","$">> >>,
       <<"#", <<"\\","#">> >>,
       <<"_", <<"\\","_">> >>,
       <<"{", <<"\\","{">> >>,
       <<"}", <<"\\","}">> >>,
       <<"~", <<"\\","t","e","x","t","a","s","c","i","i","t","i","l","d","e","{","}">> >>,
       <<"^", <<"\\","t","e","x","t","a","s","c","i","i","c","i","r","c","u","m","{","}">> >> >>

\* Lines 32-35: the replacements, in the dict's insertion order.
replacements ==
    << <<"&", <<"\\","&">> >>,
       <<"%", <<"\\","%">> >>,
       <<"$", <<"\\","$">> >>,
       <<"#", <<"\\","#">> >>,
       <<"_", <<"\\","_">> >>,
       <<"{", <<"\\","{">> >>,
       <<"}", <<"\\","}">> >>,
       <<"~", <<"\\","t","e","x","t","a","s","c","i","i","t","i","l","d","e","{","}">> >>,
       <<"^", <<"\\","t","e","x","t","a","s","c","i","i","c","i","r","c","u","m","{","}">> >> >>

RECURSIVE str_replace(_, _, _)
\* text.replace(char, escaped), char one character: every occurrence, left to right.
str_replace(s, char, escaped) ==
    IF s = <<>> THEN <<>>
    ELSE (IF Head(s) = char THEN escaped ELSE <<Head(s)>>)
         \o str_replace(Tail(s), char, escaped)

RECURSIVE replace_from(_, _)
\* Lines 36-37: the loop, each replacement applied to the result of the one before.
replace_from(s, i) ==
    IF i > Len(replacements) THEN s
    ELSE replace_from(str_replace(s, replacements[i][1], replacements[i][2]), i + 1)

\* escape_latex(text), text a str (lines 30-31 return str(text) for anything else).
escape_latex(s) == replace_from(s, 1)

\* The texts escaped: up to MaxTextLen characters, the reserved ones, the
\* backslash and plain ones.
MaxTextLen == 3

TextChars == {"&", "%", "$", "#", "_", "{", "}", "~", "^", "\\", "a", " "}

EscapeIdle == text = <<>> /\ once = <<>> /\ twice = <<>> /\ epc = "idle"

EscapeInit ==
    /\ text \in StringsUpTo(TextChars, MaxTextLen)
    /\ once = <<>> /\ twice = <<>> /\ epc = "input"

\* escape_latex applied to the text, and again to its own output.
EscapeLatexCall ==
    /\ epc = "input"
    /\ once' = escape_latex(text)
    /\ twice' = escape_latex(escape_latex(text))
    /\ epc' = "done"
    /\ UNCHANGED <<text, titleVars, llmVars, browserVars, runVars, parseVars>>

----------------------------------------------------------------------------
(* main.py: what the LLM's answer parses to *)

\* A value under a key of a parsed object; "missing": the key is absent.
Missing(v)  == [kind |-> "missing", val |-> v]
PyInt(n)    == [kind |-> "int", val |-> n]
PyStr(v)    == [kind |-> "str", val |-> v]
PyNull(v)   == [kind |-> "null", val |-> v]
PyList(v)   == [kind |-> "list", val |-> v]

\* A parsed object: what json.loads or ast.literal_eval made of "{...}".
\* json.loads gives a dict; ast.literal_eval gives a dict or, for text such
\* as "{1, 2}", a set.
PyDict(d) == [py |-> "dict", d |-> d]

\* Line 242: the default result of analyze_job.
default_result ==
    PyDict([score |-> PyInt(0), reason |-> PyStr("Failed"),
            justification |-> PyStr("Analysis failed."),
            matching_skills |-> PyList(<<>>), best_projects |-> PyList(<<>>)])

\* An analysis as the prompt asks for it, with the given score.
Analysis(score) ==
    PyDict([score |-> score, reason |-> PyStr("Short summary"),
            justification |-> PyStr("Why"),
            matching_skills |-> PyList(<<"Python">>),
            best_projects |-> PyList(<<"Crawler">>)])

\* An object with none of the keys: "{}".
EmptyAnalysis ==
    PyDict([score |-> Missing(0), reason |-> Missing(""),
            justification |-> Missing(""),
            matching_skills |-> Missing(<<>>), best_projects |-> Missing(<<>>)])

\* An object with a score and nothing else.
ScoreOnly(score) == PyDict([EmptyAnalysis.d EXCEPT !.score = score])

\* ast.literal_eval("{1, 2}"): a set, which has no get().
PySet == [py |-> "set", d |-> EmptyAnalysis.d]

\* None, the result of generate_resume_data when every attempt failed.
PyNone == [py |-> "None", d |-> EmptyAnalysis.d]

\* The call has not returned.
NoResult == [py |-> "pending", d |-> EmptyAnalysis.d]

\* The call ended with an exception that reached its caller.
PyRaised == [py |-> "raised", d |-> EmptyAnalysis.d]

\* The scores an answer may carry: integers around the two thresholds, a
\* number written as a string, null.
Scores == {PyInt(0), PyInt(49), PyInt(50), PyInt(79), PyInt(80), PyInt(100),
           PyStr(85), PyNull(0)}

\* What an answer's text can parse to.
ParsedValues ==
    {Analysis(sc) : sc \in Scores} \cup
    {ScoreOnly(PyInt(85)), Analysis(Missing(0)), EmptyAnalysis, PySet}

----------------------------------------------------------------------------
(* main.py: analyze_job and generate_resume_data, the request loops *)

ANALYZE_RATE_LIMIT_SLEEP == 30
RESUME_CALL_SLEEP == 30
ANALYZE_RETRY_SLEEP == 2
RESUME_ERROR_SLEEP == 5

\* Lines 224 and 300: for attempt in range(3)
MaxAttempts == 3

\* What requests.post and the answer's text can be.
\*   error: requests.post raised (connection, timeout)
\*   otherwise a response with a status and a body:
\*     no_choices: resp.json() raises, or the path ["choices"][0]["message"]
\*                 ["content"] is not there
\*     no_braces:  the content holds no "{...}"
\*     json:       json.loads parses the match
\*     literal:    json.loads fails and ast.literal_eval parses the match
\*     garbage:    both fail
Bodies ==
    {[body |-> b, value |-> NoResult] : b \in {"no_choices", "no_braces", "garbage"}}
    \cup {[body |-> "json", value |-> v] : v \in ParsedValues \ {PySet}}
    \cup {[body |-> "literal", value |-> v] : v \in {Analysis(PyInt(85)), PySet}}

Outcomes ==
    {[kind |-> "error", status |-> 0, body |-> "none", value |-> NoResult],
     [kind |-> "response", status |-> 429, body |-> "none", value |-> NoResult]}
    \cup {[kind |-> "response", status |-> st, body |-> b.body, value |-> b.value] :
            st \in {200, 500}, b \in Bodies}

NoResponse == [kind |-> "none", status |-> 0, body |-> "none", value |-> NoResult]

\* What one iteration does after requests.post: the sleeps it executes, and
\* whether it returns (and what).
Continue(sleeps) == [sleeps |-> sleeps, returns |-> FALSE, value |-> NoResult]
Return(v)        == [sleeps |-> <<>>, returns |-> TRUE, value |-> v]

\* Lines 232-238 and 313-323: the content is there and "{.*}" matches it.
Parses(r) == r.body \in {"json", "literal"}

\* A slip of lines 227-230: the rate-limit branch goes on without sleeping.
analyze_rate_limited_no_sleep == Continue(<<>>)

\* Lines 227-230: status 429: sleep, continue.
analyze_rate_limited == Continue(<<ANALYZE_RATE_LIMIT_SLEEP>>)

\* A slip of line 239: the failure of both parsers is not caught.
analyze_unparsed_raises == Return(PyRaised)

\* Lines 238-240: ast.literal_eval raises inside the except clause; the
\* outer `except: pass` catches it; time.sleep(2) follows.
analyze_unparsed == Continue(<<ANALYZE_RETRY_SLEEP>>)

\* Lines 225-240: one iteration of analyze_job's loop, after the request.
analyze_attempt(r) ==
    IF r.kind = "error" THEN Continue(<<ANALYZE_RETRY_SLEEP>>)         \* 239-240
    ELSE IF r.status = 429 THEN analyze_rate_limited                   \* 227-230
    ELSE IF r.body = "no_choices" THEN Continue(<<ANALYZE_RETRY_SLEEP>>) \* 232, 239-240
    ELSE IF r.body = "no_braces" THEN Continue(<<ANALYZE_RETRY_SLEEP>>)  \* 235, 240
    ELSE IF Parses(r) THEN Return(r.value)                             \* 237-238
    ELSE analyze_unparsed

\* Lines 304-307: status 429: sleep, continue.
generate_rate_limited == Continue(<<RESUME_CALL_SLEEP>>)

\* Lines 301-327: one iteration of generate_resume_data's loop, after the
\* request.
generate_attempt(r) ==
    IF r.kind = "error" THEN Continue(<<RESUME_ERROR_SLEEP>>)          \* 325-327
    ELSE IF r.status = 429 THEN generate_rate_limited                  \* 304-307
    ELSE IF r.status # 200 THEN Continue(<<>>)                         \* 309-311
    ELSE IF r.body = "no_choices" THEN Continue(<<RESUME_ERROR_SLEEP>>) \* 313, 325-327
    ELSE IF r.body = "no_braces" THEN Continue(<<>>)                   \* 317
    ELSE IF Parses(r) THEN Return(r.value)                             \* 320, 322
    ELSE Continue(<<>>)                                                \* 321-323

attempt_of(fn, r) ==
    IF fn = "analyze_job" THEN analyze_attempt(r) ELSE generate_attempt(r)

\* Lines 242 and 329: the value returned when the loop ends.
exhausted_result(fn) == IF fn = "analyze_job" THEN default_result ELSE PyNone

\* The events of the trace.
\*   post: requests.post is called; error: it raised; status: it returned a
\*   response with status n and the body b; sleep: time.sleep(n).
EvPost          == [e |-> "post", n |-> 0, b |-> ""]
EvError         == [e |-> "error", n |-> 0, b |-> ""]
EvStatus(st, b) == [e |-> "status", n |-> st, b |-> b]
EvSleep(d)      == [e |-> "sleep", n |-> d, b |-> ""]

SleepEvents(ds) == [k \in 1..Len(ds) |-> EvSleep(ds[k])]

LlmIdle ==
    /\ lfn = "idle" /\ lpc = "idle" /\ attempt = 0
    /\ resp = NoResponse /\ trace = <<>> /\ lresult = NoResult

\* The call has been made and is at the head of its loop (the profile has
\* been read or replaced by "{}", the prompt built: lines 185-222, 247-298).
LlmInit ==
    /\ lfn \in {"analyze_job", "generate_resume_data"}
    /\ lpc = "loop" /\ attempt = 0
    /\ resp = NoResponse /\ trace = <<>> /\ lresult = NoResult

\* Lines 226 and 302: requests.post, which raises or gives a response.
Post ==
    /\ lpc = "loop"
    /\ attempt < MaxAttempts
    /\ \E r \in Outcomes :
        /\ resp' = r
        /\ trace' = trace \o <<EvPost, IF r.kind = "error" THEN EvError
                                        ELSE EvStatus(r.status, r.body)>>
    /\ attempt' = attempt + 1
    /\ lpc' = "got"
    /\ UNCHANGED <<lfn, lresult, titleVars, escapeVars, browserVars, runVars, parseVars>>

\* The rest of the iteration: sleep and go on, or return the parsed value.
HandleResponse ==
    /\ lpc = "got"
    /\ LET a == attempt_of(lfn, resp) IN
        /\ trace' = trace \o SleepEvents(a.sleeps)
        /\ lpc' = IF a.returns THEN "done" ELSE "loop"
        /\ lresult' = IF a.returns THEN a.value ELSE lresult
    /\ UNCHANGED <<lfn, attempt, resp, titleVars, escapeVars, browserVars, runVars, parseVars>>

\* Lines 242 and 329: the loop is over, the default is returned.
Exhausted ==
    /\ lpc = "loop"
    /\ attempt >= MaxAttempts
    /\ lresult' = exhausted_result(lfn)
    /\ lpc' = "done"
    /\ UNCHANGED <<lfn, attempt, resp, trace, titleVars, escapeVars, browserVars, runVars, parseVars>>

LlmNext == Post \/ HandleResponse \/ Exhausted

----------------------------------------------------------------------------
(* main.py crawl_jobs, custom_tool.py JobSearchTool._run: the data *)

\* A text by where it comes from and its length; Python's "" and None.
Text(from, len) == [from |-> from, len |-> len]
EmptyText == Text("", 0)
NoneText  == Text("None", 0)

\* A slip of main.py 155 and 176: the text is returned whole.
Untruncated(t, n) == t

\* text[:n]
Truncated(t, n) == [t EXCEPT !.len = IF t.len > n THEN n ELSE t.len]

\* A dict is the sequence of its items in insertion order.
dict_has(d, k) == \E i \in 1..Len(d) : d[i].key = k

\* A slip of d[k] = v: a list of pairs that takes every pair it is given.
dict_set_appending(d, k, v) == Append(d, [key |-> k, val |-> v])

\* d[k] = v: a key already there keeps its place and gets the new value.
dict_set(d, k, v) ==
    IF dict_has(d, k)
    THEN [i \in 1..Len(d) |-> IF d[i].key = k THEN [key |-> k, val |-> v] ELSE d[i]]
    ELSE Append(d, [key |-> k, val |-> v])

dict_get(d, k) == d[CHOOSE i \in 1..Len(d) : d[i].key = k].val

\* list(d.values())
dict_values(d) == [i \in 1..Len(d) |-> d[i].val]

RECURSIVE str_lstrip(_)
str_lstrip(s) == IF s # <<>> /\ Head(s) = " " THEN str_lstrip(Tail(s)) ELSE s

RECURSIVE str_rstrip(_)
str_rstrip(s) ==
    IF s # <<>> /\ s[Len(s)] = " " THEN str_rstrip(SubSeq(s, 1, Len(s) - 1)) ELSE s

\* str.strip(), for spaces.
str_strip(s) == str_rstrip(str_lstrip(s))

\* The URLs of job pages, as urljoin(url, slug-or-href) gives them; "" for a
\* missing or empty slug, href or absolute_url.
Urls == {"/job/1", "/job/2", "/job/3", "/job/4", "/job/5", "/about"}

\* custom_tool.py line 93: "/job/", "/career/" or "req-" occurs in the URL.
is_job_url(u) == u \in {"/job/1", "/job/2", "/job/3", "/job/4", "/job/5"}

\* custom_tool.py lines 94-95: the first run of digits of the URL, or "N_A".
url_id(u) ==
    CASE u = "/job/1" -> "1" [] u = "/job/2" -> "2" [] u = "/job/3" -> "3"
      [] u = "/job/4" -> "4" [] u = "/job/5" -> "5" [] OTHER -> "N_A"

ApiTitle  == <<"B","a","c","k","e","n","d"," ","E","n","g","i","n","e","e","r">>
LinkText  == <<" ","S","o","f","t","w","a","r","e"," ","E","n","g","i","n","e","e","r"," ">>
ApplyText == <<"A","p","p","l","y"," ","f","o","r"," ","E","n","g","i","n","e","e","r">>
ShortText == <<"Q","A">>
InIndia   == <<"P","u","n","e",","," ","I","n","d","i","a">>
InBerlin  == <<"B","E","R","L","I","N">>
InParis   == <<"P","a","r","i","s">>

\* An item of an API's job list.  keys: the keys the object has; a value is
\* <<>> (or "") when its key is absent or its value empty or null.  isdict is
\* FALSE for an item that is no object (job.get raises).
ApiJob(t, loc, u) ==
    [isdict |-> TRUE, keys |-> {"title", "location", "url", "absolute_url", "content", "id"},
     title |-> t, jobTitle |-> <<>>, name |-> <<>>, location |-> loc,
     url |-> u, absolute_url |-> u, id |-> url_id(u), raw_content |-> Text("api", 300)]

NotAJob == [ApiJob(<<>>, <<>>, "") EXCEPT !.isdict = FALSE, !.keys = {}]

\* A response as the listener sees it.
\*   json:  "json" is in the content-type header
\*   named: "jobs", "search" or "greenhouse" is in the URL (custom_tool.py 35)
\*   shape: what response.json() is: a "list", a "dict" holding the list under
\*          `key`, or "other" (a string, a number, or json() raises)
ApiResponse(shape, key, items) ==
    [json |-> TRUE, named |-> TRUE, shape |-> shape, key |-> key, items |-> items]

FiveJobs ==
    << ApiJob(ApiTitle, InIndia, "/job/1"), ApiJob(ApiTitle, InIndia, "/job/2"),
       ApiJob(ApiTitle, InIndia, "/job/3"), ApiJob(ApiTitle, InIndia, "/job/4"),
       ApiJob(ApiTitle, InIndia, "/job/5") >>

MixedJobs ==
    << [ApiJob(<<>>, InBerlin, "/job/2") EXCEPT !.jobTitle = ApiTitle],
       ApiJob(ApiTitle, InParis, "/job/3"),
       ApiJob(ApiTitle, InIndia, ""),
       [ApiJob(ApiTitle, InIndia, "/job/4") EXCEPT !.raw_content = NoneText],
       NotAJob,
       ApiJob(ApiTitle, InIndia, "/job/5") >>

\* The responses a page may cause.
ApiResponses ==
    { ApiResponse("list", "", <<ApiJob(ApiTitle, InIndia, "/job/1")>>),
      ApiResponse("dict", "jobs", FiveJobs),
      ApiResponse("dict", "hits", <<ApiJob(ApiTitle, InIndia, "/job/2")>>),
      ApiResponse("dict", "items", <<ApiJob(ApiTitle, InIndia, "/job/2")>>),
      ApiResponse("list", "", MixedJobs),
      ApiResponse("list", "", <<[ApiJob(<<>>, InIndia, "/job/1") EXCEPT
                                    !.keys = {"name", "url"}, !.name = ApiTitle]>>),
      ApiResponse("other", "", <<>>),
      [ApiResponse("list", "", <<ApiJob(ApiTitle, InIndia, "/job/1")>>) EXCEPT !.json = FALSE],
      [ApiResponse("list", "", <<ApiJob(ApiTitle, InIndia, "/job/2")>>) EXCEPT !.named = FALSE] }

\* An <a> element: its inner text, its href resolved against the page's URL
\* ("" when it has none); fails: inner_text() or get_attribute() raises.
Link(t, href) == [text |-> t, href |-> href, fails |-> FALSE]

PageLinks ==
    { Link(LinkText, "/job/1"), Link(LinkText, "/job/2"), Link(LinkText, "/about"),
      Link(ApplyText, "/job/3"), Link(ShortText, "/job/3"), Link(LinkText, ""),
      [Link(LinkText, "/job/3") EXCEPT !.fails = TRUE] }

india_keywords ==
    { <<"I","n","d","i","a">>,
      <<"B","a","n","g","a","l","o","r","e">>,
      <<"H","y","d","e","r","a","b","a","d">>,
      <<"P","u","n","e">>,
      <<"G","u","r","g","a","o","n">>,
      <<"N","o","i","d","a">>,
      <<"M","u","m","b","a","i">>,
      <<"C","h","e","n","n","a","i">>,
      <<"I","N">> }

tool_india_keywords ==
    { <<"I","n","d","i","a">>,
      <<"B","a","n","g","a","l","o","r","e">>,
      <<"H","y","d","e","r","a","b","a","d">>,
      <<"P","u","n","e">> }

job_link_words ==
    { <<"e","n","g","i","n","e","e","r">>,
      <<"d","e","v","e","l","o","p","e","r">>,
      <<"a","n","a","l","y","s","t">>,
      <<"a","r","c","h","i","t","e","c","t">>,
      <<"l","e","a","d">>,
      <<"m","a","n","a","g","e","r">> }

generic_link_words ==
    { <<"r","e","a","d"," ","m","o","r","e">>,
      <<"l","e","a","r","n"," ","m","o","r","e">>,
      <<"a","p","p","l","y">>,
      <<"j","o","b","s">>,
      <<"c","a","r","e","e","r","s">> }

api_list_keys == <<"jobs", "results", "data", "hits", "positions">>

\* A record of found_jobs (main.py 87-91, 135-139) or of found_jobs_map
\* (custom_tool.py 57-62, 97-102); crawl_jobs' records have no id.
JobRecord(id, t, u, c) == [id |-> id, title |-> t, url |-> u, content |-> c]

----------------------------------------------------------------------------
(* main.py crawl_jobs: handle_response and the link scan *)

\* Line 72: job.get("title") or job.get("jobTitle") or job.get("name")
first_title(j) ==
    IF j.title # <<>> THEN j.title ELSE IF j.jobTitle # <<>> THEN j.jobTitle ELSE j.name

\* Line 84: any(x in location for x in [...])
is_india(loc) == \E x \in india_keywords : str_in(x, loc)

\* Lines 55-62: the list the response holds, <<>> when it holds none.
crawl_job_list(r) ==
    IF r.shape = "list" THEN r.items
    ELSE IF r.shape = "dict" /\ \E k \in 1..Len(api_list_keys) : api_list_keys[k] = r.key
         THEN r.items
    ELSE <<>>

\* A slip of lines 86-87: a URL already in found_jobs is left as it is.
crawl_store_if_absent(found, u, rec) ==
    IF dict_has(found, u) THEN found ELSE dict_set(found, u, rec)

\* Lines 86-91: found_jobs[j_url] = {...}, whatever was there.
crawl_store(found, u, rec) == dict_set(found, u, rec)

RECURSIVE crawl_take(_, _, _)
\* Lines 70-91: the loop over job_list; an item that raises ends it (line
\* 92), with what the items before it stored kept.
crawl_take(found, job_list, i) ==
    IF i > Len(job_list) THEN found
    ELSE LET j == job_list[i] IN
         IF ~ j.isdict THEN found
         ELSE IF is_india(j.location) /\ first_title(j) # <<>> /\ j.url # ""
              THEN crawl_take(crawl_store(found, j.url,
                                          JobRecord("", first_title(j), j.url, EmptyText)),
                              job_list, i + 1)
              ELSE crawl_take(found, job_list, i + 1)

\* Lines 46-93: handle_response(response); it never raises.
crawl_handle_response(found, r) ==
    IF ~ r.json THEN found
    ELSE LET job_list == crawl_job_list(r) IN
         IF job_list = <<>> THEN found
         ELSE IF job_list[1].isdict /\ job_list[1].keys \cap {"title", "jobTitle"} # {}
              THEN crawl_take(found, job_list, 1)
              ELSE found

\* Lines 119-140: one iteration of the loop over the links.
crawl_scan_link(found, l) ==
    IF l.fails THEN found
    ELSE LET t == str_strip(l.text)
             text_lower == str_lower(t)
             is_job_link == \E x \in job_link_words : str_in(x, text_lower)
             is_generic == \E x \in generic_link_words : str_in(x, text_lower)
         IN  IF l.href = "" \/ Len(t) < 4 THEN found
             ELSE IF is_job_link /\ ~ is_generic /\ ~ dict_has(found, l.href)
                  THEN dict_set(found, l.href, JobRecord("", t, l.href, EmptyText))
                  ELSE found

----------------------------------------------------------------------------
(* custom_tool.py JobSearchTool._run: handle_response and the link scan *)

\* Line 54: re.sub(r'<[^<]+?>', '', raw_content): the tags are taken out.
clean_content(raw) == [raw EXCEPT !.len = raw.len - 7]

RECURSIVE tool_take(_, _, _)
\* Lines 43-62: the loop over job_list.
tool_take(found, job_list, i) ==
    IF i > Len(job_list) THEN found
    ELSE LET j == job_list[i] IN
         IF ~ j.isdict THEN found                                    \* job.get raises
         ELSE IF ~ \E x \in tool_india_keywords : str_in(x, j.location)
              THEN tool_take(found, job_list, i + 1)
         ELSE IF j.raw_content = NoneText THEN found                 \* re.sub raises
         ELSE IF j.absolute_url # "" /\ ~ dict_has(found, j.absolute_url)
              THEN tool_take(dict_set(found, j.absolute_url,
                       JobRecord(j.id,
                                 IF "title" \in j.keys THEN j.title
                                 ELSE <<"U","n","k","n","o","w","n"," ","R","o","l","e">>,
                                 j.absolute_url, clean_content(j.raw_content))),
                       job_list, i + 1)
              ELSE tool_take(found, job_list, i + 1)

\* Lines 32-64: handle_response(response); it never raises.
tool_handle_response(found, r) ==
    IF ~ r.json \/ ~ r.named THEN found
    ELSE IF r.shape = "list" THEN tool_take(found, r.items, 1)
    ELSE IF r.shape = "dict" /\ r.key = "jobs" THEN tool_take(found, r.items, 1)
    ELSE found

\* Lines 83-103: one iteration of the loop over the links.
tool_scan_link(found, l) ==
    IF l.fails THEN found
    ELSE LET t == str_strip(l.text) IN
         IF l.href = "" \/ Len(t) < 5 THEN found
         ELSE IF dict_has(found, l.href) THEN found
         ELSE IF is_job_url(l.href)
              THEN dict_set(found, l.href, JobRecord(url_id(l.href), t, l.href, NoneText))
              ELSE found

----------------------------------------------------------------------------
(* crawl_jobs, JobSearchTool._run and get_job_text: the steps *)

MaxResponses == 2
MaxLinks == 2

SCROLLS == 5
DOM_SCAN_BELOW == 5
TEXT_LIMIT == 6000
INLINE_ABOVE == 100

Crawlers == {"crawl_jobs", "JobSearchTool._run"}

\* The job records get_job_text is called with: those crawl_jobs makes
\* (content ""), those of JobSearchTool._run (content None or the API's text).
FetchJobs ==
    {JobRecord("", ApiTitle, "/job/1", c) :
        c \in {EmptyText, NoneText, Text("api", 100), Text("api", 101), Text("api", 7000)}}

NoJob == JobRecord("", <<>>, "", EmptyText)

BrowserIdle ==
    /\ bop = "idle" /\ bpc = "idle" /\ playwright = "none" /\ browser = "none"
    /\ listening = FALSE /\ found_jobs = <<>> /\ responses = 0 /\ links = <<>>
    /\ link_i = 0 /\ scrolls = 0 /\ job = NoJob /\ seen = <<>>
    /\ content = EmptyText /\ bret = "pending" /\ jobs_list = <<>>
    /\ job_text = EmptyText /\ api_urls = {} /\ dom_urls = {}

\* One of the three operations has been called.
BrowserInit ==
    /\ \/ bop \in Crawlers /\ job = NoJob /\ bpc = "enter"
       \/ bop = "get_job_text" /\ job \in FetchJobs /\ bpc = "inline"
    /\ playwright = "none" /\ browser = "none"
    /\ listening = FALSE /\ found_jobs = <<>> /\ responses = 0 /\ links = <<>>
    /\ link_i = 0 /\ scrolls = 0 /\ seen = <<>>
    /\ content = EmptyText /\ bret = "pending" /\ jobs_list = <<>>
    /\ job_text = EmptyText /\ api_urls = {} /\ dom_urls = {}

notBrowser == <<titleVars, escapeVars, llmVars, runVars, parseVars>>
history == <<api_urls, dom_urls>>

\* The keys of a dict.
dict_keys(d) == {d[i].key : i \in 1..Len(d)}

\* An exception leaves the `with sync_playwright()` block and the function:
\* the block is exited, no statement of the function runs any more.
Raise ==
    /\ bret' = "raised"
    /\ bpc' = "done"
    /\ playwright' = IF playwright = "entered" THEN "exited" ELSE playwright

\* A slip of the except clauses of crawl_jobs / _run (main.py 142-145,
\* custom_tool.py 105-108): there is no finally, the browser is not closed.
after_failure_no_close == "return"

\* main.py 142-145, custom_tool.py 105-108, main.py 177-180: an exception
\* inside the try goes to the except clause and then to the finally clause.
after_failure == "close"

\* main.py 37, 157; custom_tool.py 23: with sync_playwright() as p
Enter ==
    /\ bpc = "enter"
    /\ playwright' = "entered"
    /\ bpc' = "launch"
    /\ UNCHANGED <<bop, bret, browser, listening, found_jobs, responses, links, link_i,
                   scrolls, job, seen, content, jobs_list, job_text, history, notBrowser>>

\* main.py 38, 158; custom_tool.py 25: browser = p.chromium.launch(...),
\* before any try.
Launch ==
    /\ bpc = "launch"
    /\ \/ /\ browser' = "open"
          /\ bpc' = IF bop = "get_job_text" THEN "new_page" ELSE "new_context"
          /\ UNCHANGED <<bret, playwright>>
       \/ Raise /\ UNCHANGED browser
    /\ UNCHANGED <<bop, listening, found_jobs, responses, links, link_i,
                   scrolls, job, seen, content, jobs_list, job_text, history, notBrowser>>

\* main.py 40-42; custom_tool.py 26: context = browser.new_context(...),
\* before any try.
NewContext ==
    /\ bpc = "new_context"
    /\ \/ bpc' = "new_page" /\ UNCHANGED <<bret, playwright>>
       \/ Raise
    /\ UNCHANGED <<bop, browser, listening, found_jobs, responses, links, link_i,
                   scrolls, job, seen, content, jobs_list, job_text, history, notBrowser>>

\* main.py 43; custom_tool.py 27: page = context.new_page(), before any try.
\* main.py 160: page = browser.new_page(), inside get_job_text's try.
NewPage ==
    /\ bpc = "new_page"
    /\ \/ /\ bpc' = IF bop = "get_job_text" THEN "goto" ELSE "on"
          /\ UNCHANGED <<bret, playwright, job_text>>
       \/ /\ bop \in Crawlers
          /\ Raise /\ UNCHANGED job_text
       \/ /\ bop = "get_job_text"                     \* main.py 177-178
          /\ job_text' = EmptyText
          /\ bpc' = after_failure
          /\ UNCHANGED <<bret, playwright>>
    /\ UNCHANGED <<bop, browser, listening, found_jobs, responses, links, link_i,
                   scrolls, job, seen, content, jobs_list, history, notBrowser>>

\* main.py 95; custom_tool.py 66: page.on("response", handle_response),
\* before any try.
On ==
    /\ bpc = "on"
    /\ \/ listening' = TRUE /\ bpc' = "goto" /\ UNCHANGED <<bret, playwright>>
       \/ Raise /\ UNCHANGED listening
    /\ UNCHANGED <<bop, browser, found_jobs, responses, links, link_i,
                   scrolls, job, seen, content, jobs_list, job_text, history, notBrowser>>

\* The listener runs while the program is inside a call of the browser
\* API: from page.goto to browser.close().  In between (the length test of
\* main.py 115, the membership test and the store of a scanned link) it
\* does not run.
Deliver ==
    /\ listening
    /\ bpc \in {"goto", "wait", "scroll", "query", "scan", "close"}
    /\ responses < MaxResponses
    /\ \E r \in ApiResponses :
        /\ found_jobs' = IF bop = "crawl_jobs" THEN crawl_handle_response(found_jobs, r)
                         ELSE tool_handle_response(found_jobs, r)
        /\ api_urls' = api_urls \cup
                dict_keys(IF bop = "crawl_jobs" THEN crawl_handle_response(<<>>, r)
                          ELSE tool_handle_response(<<>>, r))
    /\ responses' = responses + 1
    /\ UNCHANGED dom_urls
    /\ UNCHANGED <<bop, bpc, playwright, browser, listening, links, link_i,
                   scrolls, job, seen, content, bret, jobs_list, job_text, notBrowser>>

\* main.py 100, 161; custom_tool.py 72: page.goto(...)
Goto ==
    /\ bpc = "goto"
    /\ \/ /\ bpc' = IF bop = "get_job_text" THEN "select" ELSE "wait"
          /\ UNCHANGED job_text
       \/ /\ bpc' = after_failure
          /\ job_text' = EmptyText
    /\ UNCHANGED <<bop, playwright, browser, listening, found_jobs, responses, links,
                   link_i, scrolls, job, seen, content, bret, jobs_list, history, notBrowser>>

\* main.py 104-105; custom_tool.py 73: page.wait_for_load_state("networkidle")
\* (and, in crawl_jobs, time.sleep(5)).
Wait ==
    /\ bpc = "wait"
    /\ bpc' \in {"scroll", after_failure}
    /\ UNCHANGED <<bop, playwright, browser, listening, found_jobs, responses, links,
                   link_i, scrolls, job, seen, content, bret, jobs_list, job_text,
                   history, notBrowser>>

\* main.py 109-111; custom_tool.py 76-78: one page.mouse.wheel(0, 5000) and
\* the sleep after it.  After the last one crawl_jobs tests
\* len(found_jobs) < 5 (main.py 115); _run scans the links in any case.
Scroll ==
    /\ bpc = "scroll"
    /\ \/ /\ scrolls' = scrolls + 1
          /\ bpc' = IF scrolls + 1 < SCROLLS THEN "scroll"
                    ELSE IF bop = "crawl_jobs" /\ ~ (Len(found_jobs) < DOM_SCAN_BELOW)
                         THEN "close"
                    ELSE "query"
       \/ /\ bpc' = after_failure
          /\ UNCHANGED scrolls
    /\ UNCHANGED <<bop, playwright, browser, listening, found_jobs, responses, links,
                   link_i, job, seen, content, bret, jobs_list, job_text, history, notBrowser>>

\* main.py 117; custom_tool.py 81: links = page.query_selector_all("a")
Query ==
    /\ bpc = "query"
    /\ \/ \E ls \in StringsUpTo(PageLinks, MaxLinks) :
            /\ links' = ls
            /\ bpc' = IF ls = <<>> THEN "close" ELSE "scan"
       \/ /\ bpc' = after_failure
          /\ UNCHANGED links
    /\ UNCHANGED <<bop, playwright, browser, listening, found_jobs, responses,
                   link_i, scrolls, job, seen, content, bret, jobs_list, job_text,
                   history, notBrowser>>

\* main.py 118-140; custom_tool.py 82-103: the loop body for the next link.
ScanLink ==
    /\ bpc = "scan"
    /\ link_i < Len(links)
    /\ found_jobs' = IF bop = "crawl_jobs" THEN crawl_scan_link(found_jobs, links[link_i + 1])
                     ELSE tool_scan_link(found_jobs, links[link_i + 1])
    /\ dom_urls' = dom_urls \cup
            dict_keys(IF bop = "crawl_jobs" THEN crawl_scan_link(<<>>, links[link_i + 1])
                      ELSE tool_scan_link(<<>>, links[link_i + 1]))
    /\ UNCHANGED api_urls
    /\ link_i' = link_i + 1
    /\ bpc' = IF link_i + 1 = Len(links) THEN "close" ELSE "scan"
    /\ UNCHANGED <<bop, playwright, browser, listening, responses, links,
                   scrolls, job, seen, content, bret, jobs_list, job_text, notBrowser>>

\* main.py 145, 180; custom_tool.py 108: finally: browser.close()
Close ==
    /\ bpc = "close"
    /\ browser' = "closed"
    /\ bpc' = "return"
    /\ UNCHANGED <<bop, playwright, listening, found_jobs, responses, links, link_i,
                   scrolls, job, seen, content, bret, jobs_list, job_text, history, notBrowser>>

\* The with block is left; main.py 147-149, custom_tool.py 110-112: the
\* list of the values is returned; main.py 176, 178: the text is.
ReturnFromBrowser ==
    /\ bpc = "return"
    /\ playwright' = "exited"
    /\ jobs_list' = IF bop \in Crawlers THEN dict_values(found_jobs) ELSE jobs_list
    /\ bret' = "returned"
    /\ bpc' = "done"
    /\ UNCHANGED <<bop, browser, listening, found_jobs, responses, links, link_i,
                   scrolls, job, seen, content, job_text, history, notBrowser>>

----------------------------------------------------------------------------
(* main.py get_job_text: the steps of its own *)

selectors == <<"main", "article", ".job-description", "#job-description", ".content">>

\* What a selector can give: no element (count() is 0); count() raises;
\* inner_text(selector) raises; an element with the given text.
SelectorOutcomes ==
    {[found |-> f, text |-> EmptyText] : f \in {"absent", "count_raises", "text_raises"}}
    \cup {[found |-> "element", text |-> Text("element", n)] : n \in {0, 50, 150, 7000}}

BodyLengths == {0, 50, 150, 7000}

\* Lines 154-155: a record with content of more than 100 characters is
\* answered from that content, without a browser.
Inline ==
    /\ bpc = "inline"
    /\ IF job.content.len > 0 /\ job.content.len > INLINE_ABOVE
       THEN /\ job_text' = Truncated(job.content, TEXT_LIMIT)
            /\ bret' = "returned"
            /\ bpc' = "done"
       ELSE /\ bpc' = "enter"
            /\ UNCHANGED <<job_text, bret>>
    /\ UNCHANGED <<bop, playwright, browser, listening, found_jobs, responses, links,
                   link_i, scrolls, job, seen, content, jobs_list, history, notBrowser>>

\* Lines 165-176: the next selector is tried; a failure of count() or of
\* inner_text() goes on to the next one (line 170); the first element ends
\* the loop (line 169), and its text, if not empty, is returned (line 176).
Select ==
    /\ bpc = "select"
    /\ Len(seen) < Len(selectors)
    /\ \E o \in SelectorOutcomes :
        /\ seen' = Append(seen, [selector |-> selectors[Len(seen) + 1],
                                 found |-> o.found, len |-> o.text.len])
        /\ IF o.found = "element"
           THEN /\ content' = [o.text EXCEPT !.from = selectors[Len(seen) + 1]]
                /\ IF o.text.len > 0
                   THEN /\ job_text' = Truncated(content', TEXT_LIMIT)
                        /\ bpc' = "close"
                   ELSE /\ bpc' = "body"
                        /\ UNCHANGED job_text
           ELSE /\ bpc' = IF Len(seen) + 1 = Len(selectors) THEN "body" ELSE "select"
                /\ UNCHANGED <<content, job_text>>
    /\ UNCHANGED <<bop, playwright, browser, listening, found_jobs, responses, links,
                   link_i, scrolls, job, bret, jobs_list, history, notBrowser>>

\* Lines 173-178: content = page.inner_text("body"), returned cut to 6000
\* characters; "" when it raises.
Body ==
    /\ bpc = "body"
    /\ \/ \E n \in BodyLengths :
            /\ content' = Text("body", n)
            /\ job_text' = Truncated(content', TEXT_LIMIT)
       \/ /\ job_text' = EmptyText
          /\ UNCHANGED content
    /\ bpc' = "close"
    /\ UNCHANGED <<bop, playwright, browser, listening, found_jobs, responses, links,
                   link_i, scrolls, job, seen, bret, jobs_list, history, notBrowser>>

BrowserNext ==
    \/ Enter \/ Launch \/ NewContext \/ NewPage \/ On \/ Deliver \/ Goto \/ Wait
    \/ Scroll \/ Query \/ ScanLink \/ Close \/ ReturnFromBrowser
    \/ Inline \/ Select \/ Body

----------------------------------------------------------------------------
(* main.py run; resume_tool.py ResumeBuilderTool._run (the file it writes) *)

MaxJobs == 5

PROMPT_EVERY == 5
LISTED == 10

\* A title of more than 30 characters, with characters a file name does not
\* keep.
CloudSoftwareEngineer ==
    <<"S","o","f","t","w","a","r","e"," ","E","n","g","i","n","e","e","r",","," ",
      "C","+","+","/","P","y","t","h","o","n"," ","(","C","l","o","u","d"," ","&"," ",
      "P","l","a","t","f","o","r","m",")">>

\* The titles of the crawled jobs: one the title filter accepts, one it
\* rejects.
RunTitles == {CloudSoftwareEngineer, DirectorOfEngineering}

\* The lists crawl_jobs can return: records with a title, a URL (the k-th
\* record's URL is written k: the URLs are the keys of a dict, hence
\* distinct) and the content "".
JobLists ==
    { [k \in 1..Len(ts) |-> JobRecord("", ts[k], k, EmptyText)] :
        ts \in StringsUpTo(RunTitles, MaxJobs) }

\* What get_job_text returns to run: a text of some length.
FetchedLengths == {0, 99, 100}

\* What analyze_job returns to run: the default result or a parsed value.
AnalyzeResults ==
    { default_result, Analysis(PyInt(49)), Analysis(PyInt(50)), ScoreOnly(PyInt(100)),
      Analysis(PyStr(85)), Analysis(PyNull(0)), Analysis(Missing(0)), PySet }

\* What generate_resume_data returns to run: None, an object with the four
\* keys, the empty object, or a set.
ResumeData ==
    { PyNone, Analysis(PyInt(0)), EmptyAnalysis, PySet }

\* The answers to "How many resumes to generate?": a number, or text int()
\* does not take, such as "two" (written as the number it stands for, and
\* numeric FALSE).
LimitAnswers ==
    {[numeric |-> TRUE, n |-> n] : n \in {-1, 0, 1, 2}}
    \cup {[numeric |-> FALSE, n |-> 2]}

NoText == Text("unset", 0)

NoAnswer == [numeric |-> FALSE, n |-> 0]

NoCalls == [get_job_text |-> 0, analyze_job |-> 0]

\* Lines 426-428: int(answer), 0 when int() raises.
limit_of(a) == IF a.numeric THEN a.n ELSE 0

\* Line 439: if ai_data: None and the empty dict are false.
truthy(v) == v.py # "None" /\ v # EmptyAnalysis

\* A slip of line 392: only a text of fewer than 50 characters is empty.
content_empty_below_50(t) == t.len < 50

\* Line 392: if len(text) < 100
content_empty(t) == t.len < 100

\* dict.get(key, default)
dict_get_or(v, default) == IF v.kind = "missing" THEN default ELSE v

\* Lines 400, 404: score >= n raises TypeError unless score is a number.
comparable(score) == score.kind = "int"

\* A slip of line 404: the threshold is 40.
accepts_from_40(score) == score.val >= 40

\* Line 404: if score >= 50
accepts(score) == score.val >= 50

\* Lines 405-410: the job with the fields run adds to it.
enriched(j, t, score, res) ==
    [id |-> j.id, title |-> j.title, url |-> j.url, content |-> j.content,
     description |-> t, match_score |-> score,
     matching_skills |-> dict_get_or(res.d.matching_skills, PyList(<<>>)),
     best_projects |-> dict_get_or(res.d.best_projects, PyList(<<>>)),
     company |-> "Zscaler"]

\* A slip of line 421: a sort that is not stable; a job goes before those
\* of the same score.
insert_before_equal(s, v) ==
    LET before == {k \in 1..Len(s) : s[k].match_score.val > v.match_score.val}
    IN  SubSeq(s, 1, Cardinality(before)) \o <<v>> \o SubSeq(s, Cardinality(before) + 1, Len(s))

RECURSIVE insert_by_score(_, _)
\* v put into the list s, sorted by match_score in non-increasing order,
\* after the entries of the same score.
insert_by_score(s, v) ==
    IF s = <<>> THEN <<v>>
    ELSE IF Head(s).match_score.val >= v.match_score.val
         THEN <<Head(s)>> \o insert_by_score(Tail(s), v)
         ELSE <<v>> \o s

RECURSIVE sorted_by_score(_)
\* Line 421: valid_jobs.sort(key=lambda x: x["match_score"], reverse=True),
\* a stable sort: entries of equal score keep their order.
sorted_by_score(s) ==
    IF s = <<>> THEN <<>>
    ELSE insert_by_score(sorted_by_score(SubSeq(s, 1, Len(s) - 1)), s[Len(s)])

\* s[:n]
prefix(s, n) == SubSeq(s, 1, IF n < Len(s) THEN n ELSE Len(s))

Digits == <<"0", "1", "2", "3", "4", "5", "6", "7", "8", "9">>

RECURSIVE int_str(_)
\* str(n), n >= 0
int_str(n) == IF n < 10 THEN <<Digits[n + 1]>> ELSE int_str(n \div 10) \o <<Digits[(n % 10) + 1]>>

\* c.isalnum(), on ASCII.
is_alnum(c) ==
    \/ c \in DOMAIN upper_to_lower
    \/ \E u \in DOMAIN upper_to_lower : upper_to_lower[u] = c
    \/ \E k \in 1..Len(Digits) : Digits[k] = c

RECURSIVE keep_safe(_)
\* resume_tool.py 150: the characters that are alphanumeric, ' ', '_' or '-'.
keep_safe(s) ==
    IF s = <<>> THEN <<>>
    ELSE (IF is_alnum(Head(s)) \/ Head(s) \in {" ", "_", "-"} THEN <<Head(s)>> ELSE <<>>)
         \o keep_safe(Tail(s))

\* A slip of main.py 442: the position is left out of the identifier.
jobid_without_position(j, idx) == prefix(j.title, 30)

\* main.py 442: jobid=f"{j['title'][:30]}_{idx+1}"
jobid(j, idx) == prefix(j.title, 30) \o <<"_">> \o int_str(idx + 1)

\* resume_tool.py 150-153: the name of the file.
output_filename(id) ==
    LET safe == str_strip(keep_safe(id)) IN
    <<"R","e","s","u","m","e","_","N","a","n","i","_">>
    \o [k \in 1..Len(safe) |-> IF safe[k] = " " THEN "_" ELSE safe[k]]
    \o <<".","t","e","x">>

\* is_tech_job on the titles of the run, computed once.
title_verdicts == [t \in RunTitles |-> is_tech_job(t)]

RunIdle ==
    /\ rpc = "idle" /\ rfail = "" /\ jobs = <<>> /\ ji = 0 /\ cur_text = NoText
    /\ result = NoResult /\ valid_jobs = <<>> /\ limit = 0 /\ ridx = 0
    /\ written = <<>> /\ answer = NoAnswer /\ calls = NoCalls
    /\ ai_data = NoResult /\ built = "none"

\* run has been started and has read the URL (lines 369-370).
RunInit ==
    /\ rpc = "crawl" /\ rfail = "" /\ jobs = <<>> /\ ji = 0 /\ cur_text = NoText
    /\ result = NoResult /\ valid_jobs = <<>> /\ limit = 0 /\ ridx = 0
    /\ written = <<>> /\ answer = NoAnswer /\ calls = NoCalls
    /\ ai_data = NoResult /\ built = "none"

notRun == <<titleVars, escapeVars, llmVars, browserVars, parseVars>>

\* An exception nothing in run catches: run ends with it.
Crash(where) == rpc' = "raised" /\ rfail' = where

\* The scoring loop goes on to the next job, or ends after the last.
NextJob ==
    /\ ji' = ji + 1
    /\ rpc' = IF ji + 1 < Len(jobs) THEN "filter" ELSE "sort"
    /\ rfail' = rfail

\* Lines 372-376: jobs = crawl_jobs(url); an empty list ends run.  crawl_jobs
\* raises when a step before its try fails.
Crawl ==
    /\ rpc = "crawl"
    /\ \/ \E js \in JobLists :
            /\ jobs' = js
            /\ rpc' = IF js = <<>> THEN "done" ELSE "filter"
            /\ UNCHANGED rfail
       \/ Crash("crawl_jobs") /\ UNCHANGED jobs
    /\ UNCHANGED <<ji, cur_text, result, valid_jobs, limit, ridx, written, answer, calls,
                   ai_data, built, notRun>>

\* Lines 378-388: the next job's title goes through is_tech_job; a title
\* it rejects ends the iteration (continue).
Filter ==
    /\ rpc = "filter"
    /\ cur_text' = NoText
    /\ result' = NoResult
    /\ calls' = NoCalls
    /\ IF title_verdicts[jobs[ji + 1].title][1]
       THEN rpc' = "fetch" /\ UNCHANGED <<ji, rfail>>
       ELSE NextJob
    /\ UNCHANGED <<jobs, valid_jobs, limit, ridx, written, answer, ai_data, built, notRun>>

\* Lines 391-394: text = get_job_text(job); a text of fewer than 100
\* characters ends the iteration (continue).  get_job_text raises when the
\* browser cannot be launched.
Fetch ==
    /\ rpc = "fetch"
    /\ calls' = [calls EXCEPT !.get_job_text = @ + 1]
    /\ \/ \E n \in FetchedLengths :
            /\ cur_text' = Text("page", n)
            /\ IF content_empty(cur_text')
               THEN NextJob
               ELSE rpc' = "analyze" /\ UNCHANGED <<ji, rfail>>
       \/ Crash("get_job_text") /\ UNCHANGED <<ji, cur_text>>
    /\ UNCHANGED <<jobs, result, valid_jobs, limit, ridx, written, answer, ai_data, built,
                   notRun>>

\* Line 396: result = analyze_job(text, title)
Analyze ==
    /\ rpc = "analyze"
    /\ result' \in AnalyzeResults
    /\ calls' = [calls EXCEPT !.analyze_job = @ + 1]
    /\ rpc' = "score"
    /\ UNCHANGED <<rfail, jobs, ji, cur_text, valid_jobs, limit, ridx, written, answer,
                   ai_data, built, notRun>>

\* Lines 397-417: the score is read and compared, the job appended if it
\* is accepted; time.sleep(2); every fifth job the operator is asked.
Score ==
    /\ rpc = "score"
    /\ IF result.py # "dict"
       THEN Crash("score") /\ UNCHANGED <<ji, valid_jobs>>        \* 397: no get()
       ELSE LET score == dict_get_or(result.d.score, PyInt(0)) IN
            IF ~ comparable(score)
            THEN Crash("score") /\ UNCHANGED <<ji, valid_jobs>>   \* 400: TypeError
            ELSE /\ valid_jobs' =
                        IF accepts(score)
                        THEN Append(valid_jobs, enriched(jobs[ji + 1], cur_text, score, result))
                        ELSE valid_jobs
                 /\ IF (ji + 1) % PROMPT_EVERY = 0
                    THEN rpc' = "prompt" /\ ji' = ji + 1 /\ UNCHANGED rfail
                    ELSE NextJob
    /\ UNCHANGED <<jobs, cur_text, result, limit, ridx, written, answer, calls, ai_data,
                   built, notRun>>

\* Lines 415-417: "stop" ends the loop, anything else goes on.
Prompt ==
    /\ rpc = "prompt"
    /\ \E choice \in {"", "stop"} :
        rpc' = IF choice = "stop" \/ ~ (ji < Len(jobs)) THEN "sort" ELSE "filter"
    /\ UNCHANGED <<rfail, jobs, ji, cur_text, result, valid_jobs, limit, ridx, written,
                   answer, calls, ai_data, built, notRun>>

\* Lines 420-424: the accepted jobs are sorted and the first ten listed.
\* The loop's locals text and result are not read again.
Sort ==
    /\ rpc = "sort"
    /\ valid_jobs' = sorted_by_score(valid_jobs)
    /\ cur_text' = NoText
    /\ result' = NoResult
    /\ calls' = NoCalls
    /\ rpc' = "limit"
    /\ UNCHANGED <<rfail, jobs, ji, limit, ridx, written, answer, ai_data, built, notRun>>

\* Lines 426-430: limit = int(input(...)), 0 when int() raises; the resume
\* loop runs over valid_jobs[:limit] if limit > 0.
AskLimit ==
    /\ rpc = "limit"
    /\ \E a \in LimitAnswers :
        /\ answer' = a
        /\ limit' = limit_of(a)
        /\ rpc' = IF limit' > 0 /\ valid_jobs # <<>> THEN "resume" ELSE "done"
    /\ UNCHANGED <<rfail, jobs, ji, cur_text, result, valid_jobs, ridx, written, calls,
                   ai_data, built, notRun>>

\* A slip of lines 449-450: the builder's exception is not caught by the loop
\* body and ends the resume step.
builder_error_ends_loop == "done"

\* Lines 449-450: except Exception: the error is printed, the iteration
\* goes on to the cool-down.
after_builder_error == "cooldown"

\* Lines 433-452: one iteration of the resume loop up to the cool-down: the
\* resume data are asked for; if they are truthy the builder is called with
\* their fields, which writes the file or raises (caught, line 449; so is
\* the failure of ai_data.get on a value that is no dict).
Resume ==
    /\ rpc = "resume"
    /\ \E d \in ResumeData, builder_ok \in BOOLEAN :
        /\ ai_data' = d
        /\ built' = IF ~ truthy(d) THEN "none"
                    ELSE IF d.py = "dict" /\ builder_ok THEN "written"
                    ELSE "raised"
        /\ written' =
            IF built' = "written"
            THEN Append(written, output_filename(jobid(valid_jobs[ridx + 1], ridx)))
            ELSE written
        /\ rpc' = IF built' = "raised" THEN after_builder_error ELSE "cooldown"
    /\ UNCHANGED <<rfail, jobs, ji, cur_text, result, valid_jobs, limit, ridx, answer,
                   calls, notRun>>

\* Lines 454-455: time.sleep(RESUME_CALL_SLEEP); the loop goes on to the
\* next of valid_jobs[:limit], or ends.
Cooldown ==
    /\ rpc = "cooldown"
    /\ ridx' = ridx + 1
    /\ ai_data' = NoResult
    /\ built' = "none"
    /\ rpc' = IF ridx + 1 < Len(prefix(valid_jobs, limit)) THEN "resume" ELSE "done"
    /\ UNCHANGED <<rfail, jobs, ji, cur_text, result, valid_jobs, limit, written, answer,
                   calls, notRun>>

RunNext ==
    \/ Crawl \/ Filter \/ Fetch \/ Analyze \/ Score \/ Prompt \/ Sort \/ AskLimit
    \/ Resume \/ Cooldown

----------------------------------------------------------------------------
(* main.py: the parsing of the answer (analyze_job 232-239,
   generate_resume_data 313-323) *)

\* The message content is a sequence of lexical units:
\*   "f"  a markdown fence, "```json" or "```"
\*   "{", "}"  the braces
\*   "m"  a member both parsers take, such as "score": 85 (with the comma
\*        that separates it from the next one)
\*   "p"  a member only Python takes, such as 'ok': True
\*   "k"  a key with its colon, whose value is the object that follows
\*   "x"  a character of prose
ReplyTokens == {"f", "{", "}", "m", "p", "k", "x"}

MaxReplyLen == 5

RECURSIVE without_fences(_)
\* Lines 233 and 314: content.replace("```json", "").replace("```", "")
without_fences(s) ==
    IF s = <<>> THEN <<>>
    ELSE (IF Head(s) = "f" THEN <<>> ELSE <<Head(s)>>) \o without_fences(Tail(s))

\* Lines 234 and 316: re.search(r"\{.*\}", content, re.DOTALL): the match
\* starts at the first "{" that has a "}" after it and, "*" being greedy
\* and "." matching every character, ends at the last "}" of the content;
\* <<>> when there is no match.
brace_match(s) ==
    LET opens == {i \in 1..Len(s) : s[i] = "{" /\ \E j \in (i + 1)..Len(s) : s[j] = "}"}
        closes == {j \in 1..Len(s) : s[j] = "}"}
    IN  IF opens = {} THEN <<>>
        ELSE SubSeq(s, CHOOSE i \in opens : \A o \in opens : i <= o,
                       CHOOSE j \in closes : \A c \in closes : j >= c)

RECURSIVE object_end(_, _, _)
RECURSIVE members_end(_, _, _)
\* The position after the object that begins at s[i], 0 if none does; the
\* members may be those of `allowed`.
object_end(s, i, allowed) ==
    IF i <= Len(s) /\ s[i] = "{" THEN members_end(s, i + 1, allowed) ELSE 0

members_end(s, i, allowed) ==
    IF i > Len(s) THEN 0
    ELSE IF s[i] = "}" THEN i + 1
    ELSE IF s[i] \in allowed THEN members_end(s, i + 1, allowed)
    ELSE IF s[i] = "k"
         THEN LET j == object_end(s, i + 1, allowed) IN
              IF j = 0 THEN 0 ELSE members_end(s, j, allowed)
    ELSE 0

NoValue == [ok |-> FALSE, value |-> <<>>]

\* The value of an object: its members.
ObjectValue(s) == [ok |-> TRUE, value |-> SubSeq(s, 2, Len(s) - 1)]

\* json.loads(json_str): the whole string must be one object.
json_loads(s) ==
    IF object_end(s, 1, {"m"}) = Len(s) + 1 THEN ObjectValue(s) ELSE NoValue

\* ast.literal_eval(json_str)
literal_eval(s) ==
    IF object_end(s, 1, {"m", "p"}) = Len(s) + 1 THEN ObjectValue(s) ELSE NoValue

\* Lines 233-238 and 314-323: what one answer gives: the value returned, or
\* NoValue when the iteration ends without a return.
parse_reply(c) ==
    LET json_str == brace_match(without_fences(c)) IN
    IF json_str = <<>> THEN NoValue
    ELSE IF json_loads(json_str).ok THEN json_loads(json_str)
    ELSE literal_eval(json_str)

ParseIdle == reply = <<>> /\ parsed = NoValue /\ ppc = "idle"

ParseInit ==
    /\ reply \in StringsUpTo(ReplyTokens, MaxReplyLen)
    /\ parsed = NoValue /\ ppc = "input"

ParseReply ==
    /\ ppc = "input"
    /\ parsed' = parse_reply(reply)
    /\ ppc' = "done"
    /\ UNCHANGED <<reply, titleVars, escapeVars, llmVars, browserVars, runVars>>

----------------------------------------------------------------------------
(* Specifications *)

InitTitle == TitleInit /\ EscapeIdle /\ LlmIdle /\ BrowserIdle /\ RunIdle /\ ParseIdle

SpecTitle == InitTitle /\ [][IsTechJobCall]_vars

InitEscape == EscapeInit /\ TitleIdle /\ LlmIdle /\ BrowserIdle /\ RunIdle /\ ParseIdle

SpecEscape == InitEscape /\ [][EscapeLatexCall]_vars

InitLlm == LlmInit /\ TitleIdle /\ EscapeIdle /\ BrowserIdle /\ RunIdle /\ ParseIdle

\* The calls run to their end: nothing in them waits on anything but the
\* request, which has a timeout (lines 226, 302).
SpecLlm == InitLlm /\ [][LlmNext]_vars /\ WF_vars(LlmNext)

InitBrowser == BrowserInit /\ TitleIdle /\ EscapeIdle /\ LlmIdle /\ RunIdle /\ ParseIdle

SpecBrowser == InitBrowser /\ [][BrowserNext]_vars

InitRun == RunInit /\ TitleIdle /\ EscapeIdle /\ LlmIdle /\ BrowserIdle /\ ParseIdle

SpecRun == InitRun /\ [][RunNext]_vars

InitParse == ParseInit /\ TitleIdle /\ EscapeIdle /\ LlmIdle /\ BrowserIdle /\ RunIdle

SpecParse == InitParse /\ [][ParseReply]_vars

----------------------------------------------------------------------------
(* C6: is_tech_job accepts a title exactly when, compared without regard to
   case, it holds no deny keyword and holds at least one tech keyword; it
   rejects "Director of Engineering" and accepts "Backend Software Engineer". *)

DenyKeywords == { bad_map[i][1] : i \in 1..Len(bad_map) }

TechKeywords == { tech_keywords[i] : i \in 1..Len(tech_keywords) }

\* k occurs in s when the case of the letters is disregarded.
OccursIgnoringCase(k, s) ==
    \E i \in 1..(Len(s) - Len(k) + 1) :
        \A j \in 1..Len(k) :
            \/ s[i + j - 1] = k[j]
            \/ /\ s[i + j - 1] \in DOMAIN upper_to_lower
               /\ upper_to_lower[s[i + j - 1]] = k[j]

C6_TitleFilter ==
    verdict # <<>> =>
        /\ verdict[1] = ( /\ \A k \in DenyKeywords : ~ OccursIgnoringCase(k, title)
                          /\ \E k \in TechKeywords : OccursIgnoringCase(k, title) )
        /\ (title = DirectorOfEngineering => verdict[1] = FALSE)
        /\ (title = BackendSoftwareEngineer => verdict[1] = TRUE)

\* A title with a deny keyword and a tech keyword, in capitals, was rejected.
C6_Witness ==
    /\ verdict # <<>>
    /\ title = DirectorOfEngineering
    /\ verdict = <<FALSE, "Too Senior (Director Level)">>

----------------------------------------------------------------------------
(* C7: escape_latex is idempotent: escaping its own output changes nothing. *)

C7_Idempotent == epc = "done" => twice = once

----------------------------------------------------------------------------
(* C8: on text without any reserved character (plain text, the backslash
   included) escape_latex returns the text itself, character for character. *)

\* The characters LaTeX reserves, as the specification lists them.
ReservedChars == {"&", "%", "$", "#", "_", "{", "}", "~", "^"}

IsPlain(s) == \A i \in 1..Len(s) : s[i] \notin ReservedChars

C8_PlainUnchanged == (epc = "done" /\ IsPlain(text)) => once = text

\* A plain text of several characters, a backslash among them, was escaped.
C8_Witness ==
    /\ epc = "done"
    /\ IsPlain(text)
    /\ Len(text) >= 2
    /\ \E i \in 1..Len(text) : text[i] = "\\"

----------------------------------------------------------------------------
(* C1: analyze_job and generate_resume_data send at most three requests per
   call and then end; a response with status 429 is followed by the sleep of
   30 seconds and, while attempts remain, by another request. *)

\* The number of requests among the first k events of the trace.
RECURSIVE Requests(_)
Requests(k) ==
    IF k = 0 THEN 0 ELSE Requests(k - 1) + (IF trace[k].e = "post" THEN 1 ELSE 0)

RateLimited(i) == trace[i].e = "status" /\ trace[i].n = 429

RateLimitHandled ==
    \A i \in 1..Len(trace) :
        RateLimited(i) =>
            /\ (i = Len(trace) => lpc = "got")
            /\ (i < Len(trace) => trace[i + 1] = EvSleep(30))
            /\ (i + 1 < Len(trace) => trace[i + 2] = EvPost)
            /\ (i + 1 = Len(trace) /\ Requests(i) < 3 => lpc = "loop" /\ ENABLED Post)

C1_ThreeRequestsAndBackoff ==
    /\ [](Requests(Len(trace)) <= 3 /\ RateLimitHandled)
    /\ <>(lpc = "done")

\* A call that was rate-limited, slept, sent a further request and ended
\* after its third request.
C1_Witness ==
    /\ lpc = "done"
    /\ Requests(Len(trace)) = 3
    /\ \E i \in 1..Len(trace) :
        RateLimited(i) /\ i + 2 <= Len(trace) /\ trace[i + 2] = EvPost

----------------------------------------------------------------------------
(* C2: when no attempt yields a parseable object, analyze_job returns the
   default negative result and generate_resume_data returns None, and
   neither raises.  An attempt yields a parseable object when its content
   holds "{...}" that json.loads or ast.literal_eval parses;
   generate_resume_data looks at the content of a response of status 200
   only. *)

YieldsObject(ev) ==
    /\ ev.e = "status"
    /\ ev.b \in {"json", "literal"}
    /\ (lfn = "generate_resume_data" => ev.n = 200)

NothingParsed == \A i \in 1..Len(trace) : ~ YieldsObject(trace[i])

C2_DefaultOnFailure ==
    /\ lresult.py # "raised"
    /\ (lpc = "done" /\ NothingParsed) =>
         /\ (lfn = "analyze_job" =>
                /\ lresult.py = "dict"
                /\ lresult.d.score = PyInt(0)
                /\ lresult.d.reason = PyStr("Failed")
                /\ lresult.d.matching_skills = PyList(<<>>)
                /\ lresult.d.best_projects = PyList(<<>>))
         /\ (lfn = "generate_resume_data" => lresult.py = "None")

\* analyze_job ended after a rate limit, a request error and an answer
\* neither parser could read.
C2_Witness ==
    /\ lpc = "done" /\ lfn = "analyze_job" /\ NothingParsed
    /\ \E i, j, k \in 1..Len(trace) :
        /\ RateLimited(i)
        /\ trace[j].e = "error"
        /\ trace[k] = EvStatus(200, "garbage")
    /\ lresult = default_result

----------------------------------------------------------------------------
(* C3: crawl_jobs and get_job_text never raise to their caller, at whichever
   step the browser fails. *)

C3_NeverRaises == bop \in {"crawl_jobs", "get_job_text"} => bret # "raised"

----------------------------------------------------------------------------
(* C4: when a call of crawl_jobs, get_job_text or JobSearchTool._run has
   ended, the browser it launched has been closed by browser.close(). *)

C4_BrowserClosed == bpc = "done" => browser # "open"

----------------------------------------------------------------------------
(* C9: for a URL found both by the response listener and by the link scan,
   the record the crawler returns is the listener's, in whichever order the
   two found it. *)

\* The record was made by the link scan: its title is the link's text.
IsDomRecord(rec) == rec.title = str_strip(LinkText)

C9_ApiRecordWins ==
    (bop \in Crawlers /\ bret = "returned") =>
        \A i \in 1..Len(jobs_list) :
            jobs_list[i].url \in api_urls \cap dom_urls => ~ IsDomRecord(jobs_list[i])

----------------------------------------------------------------------------
(* C5: for every object analyze_job returns (a parsed object with fields
   missing or of another type than asked for, or the default result), the
   scoring step of run does not fail. *)

C5_ScoringNeverFails == ~ (rpc = "raised" /\ rfail = "score" /\ result.py = "dict")

----------------------------------------------------------------------------
(* C10: when the scoring loop is through with a job, the job is in valid_jobs
   exactly if its title passes is_tech_job, its fetched text has at least 100
   characters and its score is at least 50; every job of valid_jobs has a
   match_score of at least 50. *)

IsValidJob(vs, j) == \E k \in 1..Len(vs) : vs[k].url = j.url

ScoreAtLeast50(res) ==
    res.py = "dict" /\ res.d.score.kind = "int" /\ res.d.score.val >= 50

C10_AcceptedIff ==
    /\ [][ ji' = ji + 1 =>
             ( IsValidJob(valid_jobs', jobs[ji + 1]) <=>
                 ( /\ title_verdicts[jobs[ji + 1].title][1]
                   /\ cur_text'.len >= 100
                   /\ ScoreAtLeast50(result') ) ) ]_vars
    /\ [](\A k \in 1..Len(valid_jobs) :
             valid_jobs[k].match_score.kind = "int" /\ valid_jobs[k].match_score.val >= 50)

\* The loop is over; a job of score 50 and a text of 100 characters was
\* accepted, another job too, and at least one job was not.
C10_Witness ==
    /\ rpc = "limit"
    /\ Len(valid_jobs) >= 2
    /\ Len(valid_jobs) < ji
    /\ \E k \in 1..Len(valid_jobs) :
        valid_jobs[k].match_score = PyInt(50) /\ valid_jobs[k].description.len = 100

----------------------------------------------------------------------------
(* C11: resumes are generated for exactly the first min(limit, number of
   accepted jobs) jobs of the accepted list sorted by match_score in
   non-increasing order, ties in crawl order, and in that order; a count of
   0, a negative count or an answer that is no number generates none. *)

\* The crawled jobs carry their position in the crawled list as their URL.
BestFirst(vs) ==
    \A a, b \in 1..Len(vs) :
        a < b => \/ vs[a].match_score.val > vs[b].match_score.val
                 \/ /\ vs[a].match_score.val = vs[b].match_score.val
                    /\ vs[a].url < vs[b].url

ResumeCount ==
    IF answer.numeric /\ answer.n > 0
    THEN (IF answer.n < Len(valid_jobs) THEN answer.n ELSE Len(valid_jobs))
    ELSE 0

C11_ResumesForBest ==
    /\ [](rpc \in {"limit", "resume", "cooldown", "done"} => BestFirst(valid_jobs))
    /\ [](rpc \in {"resume", "cooldown"} => ridx < ResumeCount)
    /\ [](rpc = "done" => ridx = ResumeCount /\ Len(written) <= ridx)
    /\ [][ridx' # ridx => ridx' = ridx + 1 /\ valid_jobs' = valid_jobs]_vars
    /\ [][written' # written =>
            /\ rpc = "resume"
            /\ written' = Append(written, output_filename(jobid(valid_jobs[ridx + 1], ridx)))]_vars

\* Three jobs were accepted, the best of them crawled after another, the
\* other two of the same score; two resumes were asked for and written.
C11_Witness ==
    /\ rpc = "done"
    /\ Len(valid_jobs) = 3
    /\ answer = [numeric |-> TRUE, n |-> 2]
    /\ ridx = 2
    /\ Len(written) = 2
    /\ valid_jobs[1].match_score.val > valid_jobs[2].match_score.val
    /\ valid_jobs[2].match_score.val = valid_jobs[3].match_score.val
    /\ valid_jobs[1].url > valid_jobs[2].url

----------------------------------------------------------------------------
(* C12: each time the number of jobs the scoring loop is through with
   reaches a multiple of five, the operator is asked whether to go on,
   whatever became of that job; "stop" ends the loop and run goes on to the
   resume step. *)

C12_AskedEveryFifth ==
    [][ji' = ji + 1 /\ (ji + 1) % 5 = 0 => rpc' = "prompt"]_vars

----------------------------------------------------------------------------
(* C13: between any two consecutive requests to the completion endpoint
   the process sleeps for a fixed time that is not zero; no two requests
   are sent back to back. *)

C13_SleepBetweenRequests ==
    \A i, j \in 1..Len(trace) :
        i < j /\ trace[i].e = "post" /\ trace[j].e = "post" =>
            \E k \in (i + 1)..(j - 1) : trace[k].e = "sleep" /\ trace[k].n > 0

----------------------------------------------------------------------------
(* C14: from the answer, the fences taken out, the parser takes the first
   brace-delimited object and returns its parsed value (json.loads first,
   ast.literal_eval if that fails), also when text or further
   brace-delimited objects follow that object. *)

RECURSIVE closing_brace(_, _, _)
\* The position of the brace that closes the one at s[i - 1], the depth at
\* s[i] being d; 0 if it is not closed.
closing_brace(s, i, d) ==
    IF i > Len(s) THEN 0
    ELSE IF s[i] = "{" THEN closing_brace(s, i + 1, d + 1)
    ELSE IF s[i] = "}" THEN (IF d = 1 THEN i ELSE closing_brace(s, i + 1, d - 1))
    ELSE closing_brace(s, i + 1, d)

\* The first brace-delimited object of s: from its first "{" to the brace
\* that closes it; <<>> if there is none.
FirstObject(s) ==
    LET opens == {i \in 1..Len(s) : s[i] = "{"} IN
    IF opens = {} THEN <<>>
    ELSE LET i == CHOOSE o \in opens : \A q \in opens : o <= q
             j == closing_brace(s, i + 1, 1)
         IN  IF j = 0 THEN <<>> ELSE SubSeq(s, i, j)

ValueOf(obj) == IF json_loads(obj).ok THEN json_loads(obj) ELSE literal_eval(obj)

RECURSIVE braces_paired(_, _)
\* Every brace of s is one of a pair (d: the braces open so far).
braces_paired(s, d) ==
    IF s = <<>> THEN d = 0
    ELSE IF Head(s) = "{" THEN braces_paired(Tail(s), d + 1)
    ELSE IF Head(s) = "}" THEN d > 0 /\ braces_paired(Tail(s), d - 1)
    ELSE braces_paired(Tail(s), d)

\* The answers the claim speaks of: prose and brace-delimited objects.
C14_FirstObjectParsed ==
    /\ ppc = "done"
    /\ braces_paired(without_fences(reply), 0)
    /\ FirstObject(without_fences(reply)) # <<>>
    => parsed = ValueOf(FirstObject(without_fences(reply)))

----------------------------------------------------------------------------
(* C15: get_job_text opens a browser only for a job without inline content
   (none, or at most 100 characters); it then returns the text of the first
   selector, in the order main, article, .job-description, #job-description,
   .content, that is present on the page, and the text of the body when no
   selector gives text; what it returns is never longer than 6000
   characters. *)

SelectorOrder == <<"main", "article", ".job-description", "#job-description", ".content">>

\* The selectors tried so far that were present on the page.
Present == {k \in 1..Len(seen) : seen[k].found = "element"}

FirstPresent == CHOOSE k \in Present : \A q \in Present : k <= q

C15_TextOfFirstSelector ==
    bop = "get_job_text" =>
        /\ playwright # "none" => job.content.len <= 100
        /\ bret = "returned" /\ job.content.len > 100 =>
                playwright = "none" /\ job_text.from = job.content.from
        /\ \A k \in 1..Len(seen) : seen[k].selector = SelectorOrder[k]
        /\ job_text.len <= 6000
        \* "" is what a failure of the browser gives
        /\ bret = "returned" /\ playwright # "none" /\ job_text.from # "" =>
                IF Present # {} /\ seen[FirstPresent].len > 0
                THEN /\ job_text.from = SelectorOrder[FirstPresent]
                     /\ job_text.len = (IF seen[FirstPresent].len > 6000 THEN 6000
                                        ELSE seen[FirstPresent].len)
                ELSE job_text.from = "body"

\* The page has no main but an article of 7000 characters: its first 6000
\* were returned.
C15_Witness ==
    /\ bop = "get_job_text"
    /\ bret = "returned"
    /\ Len(seen) = 2
    /\ seen[1].found = "absent"
    /\ seen[2].found = "element"
    /\ seen[2].len = 7000
    /\ job_text = Text("article", 6000)

----------------------------------------------------------------------------
(* C16: within one run no two jobs are written to the same file: the name
   made from the job's identifier (the first 30 characters of the title and
   the position) differs for different jobs, and apart from the fixed
   beginning and ending it holds only letters, digits, "_" and "-". *)

NameChars ==
    {"a","b","c","d","e","f","g","h","i","j","k","l","m","n","o","p","q","r","s","t",
     "u","v","w","x","y","z","A","B","C","D","E","F","G","H","I","J","K","L","M","N",
     "O","P","Q","R","S","T","U","V","W","X","Y","Z","0","1","2","3","4","5","6","7",
     "8","9","_","-"}

NameBeginning == <<"R","e","s","u","m","e","_","N","a","n","i","_">>
NameEnding == <<".","t","e","x">>

WellNamed(f) ==
    /\ Len(f) >= Len(NameBeginning) + Len(NameEnding)
    /\ SubSeq(f, 1, Len(NameBeginning)) = NameBeginning
    /\ SubSeq(f, Len(f) - Len(NameEnding) + 1, Len(f)) = NameEnding
    /\ \A k \in (Len(NameBeginning) + 1)..(Len(f) - Len(NameEnding)) : f[k] \in NameChars

C16_OneFilePerJob ==
    /\ \A a, b \in 1..Len(written) : a # b => written[a] # written[b]
    /\ \A a \in 1..Len(written) : WellNamed(written[a])

\* Two jobs of the same title got their resumes.
C16_Witness ==
    /\ Len(written) = 2
    /\ valid_jobs[1].title = valid_jobs[2].title
    /\ written[1] = <<"R","e","s","u","m","e","_","N","a","n","i","_","S","o","f","t","w","a","r","e","_","E","n","g","i","n","e","e","r","_","C","P","y","t","h","o","n","_","_","1",".","t","e","x">>

----------------------------------------------------------------------------
(* C17: at every point of a crawl found_jobs holds at most one record per
   URL, and every record has a title that is not empty and a url that is
   not empty and is its key; the list crawl_jobs returns holds no two
   records of the same URL. *)

C17_OneRecordPerUrl ==
    bop = "crawl_jobs" =>
        /\ \A a, b \in 1..Len(found_jobs) : a # b => found_jobs[a].key # found_jobs[b].key
        /\ \A a \in 1..Len(found_jobs) :
            /\ found_jobs[a].val.title # <<>>
            /\ found_jobs[a].val.url # ""
            /\ found_jobs[a].val.url = found_jobs[a].key
        /\ \A a, b \in 1..Len(jobs_list) : a # b => jobs_list[a].url # jobs_list[b].url

\* crawl_jobs has returned two records or more; one URL was in a response
\* and in a link, and two responses were delivered.
C17_Witness ==
    /\ bop = "crawl_jobs"
    /\ bret = "returned"
    /\ Len(jobs_list) >= 2
    /\ responses = 2
    /\ api_urls \cap dom_urls # {}

----------------------------------------------------------------------------
(* C18: for each crawled job run goes through title filter, text fetch and
   scoring in this order: a job is_tech_job rejects causes no browser
   session and no LLM request, a job whose fetched text has fewer than 100
   characters no LLM request; analyze_job is called at most once per job. *)

C18_StagesInOrder ==
    /\ [][ji' = ji + 1 =>
            /\ ~ title_verdicts[jobs[ji + 1].title][1] => calls' = NoCalls
            /\ cur_text'.len < 100 => calls'.analyze_job = 0
            /\ calls'.analyze_job = 1 => calls'.get_job_text = 1]_vars
    /\ [](calls.get_job_text <= 1 /\ calls.analyze_job <= 1)
    /\ [](calls.analyze_job = 1 => calls.get_job_text = 1 /\ cur_text.len >= 100)
    /\ [](calls.get_job_text = 1 /\ ji < Len(jobs) /\ rpc \in {"analyze", "score"} =>
            title_verdicts[jobs[ji + 1].title][1])

\* The loop is through with a job whose text had 99 characters: the text
\* was fetched, analyze_job was not called.
C18_Witness ==
    /\ rpc = "filter"
    /\ ji >= 1
    /\ title_verdicts[jobs[ji].title][1]
    /\ cur_text.len = 99
    /\ calls = [get_job_text |-> 1, analyze_job |-> 0]

----------------------------------------------------------------------------
(* C19: in the resume step a failure for one job (generate_resume_data
   returns None, or the builder raises) writes no file for that job and does
   not end the loop: each of the first `limit` accepted jobs that remain is
   still taken, and the cool-down sleep follows every job, failed or not. *)

JobsToTake == IF limit < Len(valid_jobs) THEN limit ELSE Len(valid_jobs)

C19_FailureGoesOn ==
    /\ [][rpc = "resume" =>
            /\ rpc' = "cooldown"
            /\ ridx' = ridx
            /\ ai_data'.py = "None" \/ built' = "raised" => written' = written]_vars
    /\ [][rpc = "cooldown" =>
            /\ ridx' = ridx + 1
            /\ rpc' = (IF ridx + 1 < JobsToTake THEN "resume" ELSE "done")]_vars
    /\ [](rpc = "done" /\ limit > 0 => ridx = JobsToTake)

\* The first job's resume failed; the second job was taken and its file is
\* written, the cool-down is to follow.
C19_Witness ==
    /\ rpc = "cooldown"
    /\ ridx = 1
    /\ built = "written"
    /\ written = << <<"R","e","s","u","m","e","_","N","a","n","i","_","S","o","f","t","w","a","r","e","_","E","n","g","i","n","e","e","r","_","C","P","y","t","h","o","n","_","_","2",".","t","e","x">> >>

====
